---------------------------- MODULE Spec2Model ----------------------------
(***************************************************************************)
(* Model of ToolExecutor.executeTools (agent/tool-executor): a pool of     *)
(* async workers that share a claim counter, run each tool call of a task  *)
(* with retry on throttle errors, save results and notify an observer.     *)
(*                                                                         *)
(* JavaScript runs one worker at a time: a worker keeps the thread from    *)
(* the moment it is resumed until its next await.  `thread` names the      *)
(* worker that holds the thread (0: the event loop is idle), so the steps  *)
(* of one synchronous run are never interleaved with another worker's.     *)
(* Calls are indexed from 0 as in the source.                              *)
(***************************************************************************)
EXTENDS Integers, Sequences, FiniteSets, TLC

\* ------------------------------------------------------------------ bounds
MaxCalls == 3
MaxConfigured == 2
MaxThrows == 3
MaxMissing == 1
MaxFaults == 1
MaxHangs == 1
MaxLiveCalls == 3
MaxProposed == 3
MaxEntities == 2

\* The longest financial history a persona is given.
MaxPeriods == 4

\* The most insider trades, and the most news items, a persona is given.
MaxItems == 4

\* ------------------------------------------------------- program constants
maxAttempts == 3
DefaultMaxConcurrent == 3

\* The number of periods the Buffett sections look at: slice(0, 6).
SliceLimit == 6

\* Names of the registered capabilities and one name that is not registered.
toolMap == {"get_news"}
ToolNames == toolMap \cup {"no_such_tool"}

\* Error messages a capability may throw, as the set of phrases they contain.
ErrorMessages ==
  { {"429"}, {"Too Many Requests"}, {"Failed to get crumb"}, {"ECONNRESET"} }

VARIABLES
  toolCalls,              \* task.toolCalls: [0..N-1 -> [tool, args, status]]
  maxConcurrentToolCalls, \* <<>> when unset, <<n>> when configured
  pcExec,                 \* position of executeTools
  result,                 \* <<>> until executeTools resolves, then <<boolean>>
  allSucceeded,
  nextIndex,
  workers,                \* per worker: [pc, idx, attempt]
  started,                \* workers created so far by Array.from
  thread,                 \* the worker that is running, 0 when none
  invokeLog,              \* per call: the outcome of each tool.invoke so far
  invokes,                \* per call: number of tool.invoke calls made
  saved,                  \* per call: number of saveContext records written
  observed,               \* per call: observer notifications, in order
  runningLog,             \* indices of the running notifications, in order
  throws,                 \* capability throws so far (bounded by MaxThrows)
  faults,                 \* observer and context-store throws so far
  toolCallsDefined,       \* FALSE when task.toolCalls is undefined
  store,                  \* per call: the records saveContext was given
  response,               \* what callLlm returns to selectTools
  selectPc,               \* position of selectTools
  selected,               \* the value selectTools returned
  llmCalls,               \* number of callLlm calls made by selectTools
  understanding,          \* the understanding passed to selectTools
  prompt,                 \* what selectTools gave buildToolSelectionPrompt
  thrown,                 \* <<>>, or <<e>> when selectTools rejected with e
  personaName,            \* the persona whose analyze is running
  personaPc,              \* position of analyze
  sections,               \* the section scores analyze has computed so far
  analysis                \* <<>>, or <<a>> when analyze returned a

vars == <<toolCalls, maxConcurrentToolCalls, pcExec, result, allSucceeded,
          nextIndex, workers, started, thread, invokeLog, invokes, saved,
          observed, runningLog, throws, faults, toolCallsDefined, store,
          response, selectPc, selected, llmCalls, understanding, prompt,
          thrown, personaName, personaPc, sections, analysis>>

\* The state of selectTools, which executeTools never touches.
selVars == <<response, selectPc, selected, llmCalls, understanding, prompt,
            thrown>>

\* The state of a persona's analyze, which ToolExecutor never touches.
personaVars == <<personaName, personaPc, sections, analysis>>

\* ----------------------------------------------------------------- helpers
Min(a, b) == IF a < b THEN a ELSE b
Max(a, b) == IF a > b THEN a ELSE b

Length == Cardinality(DOMAIN toolCalls)
Indices == DOMAIN toolCalls

\* this.maxConcurrentToolCalls ?? 3
maxConcurrent ==
  IF maxConcurrentToolCalls = <<>> THEN DefaultMaxConcurrent
  ELSE maxConcurrentToolCalls[1]

\* Faulty variant of WorkerCount: the configured limit is not applied.
WorkerCountUnbounded == Max(1, Length)

\* Math.max(1, Math.min(maxConcurrent, task.toolCalls.length))
WorkerCount == Max(1, Min(maxConcurrent, Length))

\* Faulty variant of PastEnd: the worker stops one index early.
PastEndOffByOne(i) == i >= Length - 1

\* if (idx >= task.toolCalls!.length) return;
PastEnd(i) == i >= Length

\* Faulty variant of Registered: the lookup result is not checked.
RegisteredAlways(name) == TRUE

\* const tool = this.toolMap.get(toolCall.tool); if (!tool) throw ...
Registered(name) == name \in toolMap

\* Faulty variant of InitialIndex: the counter of an earlier invocation is
\* carried on.
InitialIndexKept == nextIndex

\* let nextIndex = 0;
InitialIndex == 0

\* Faulty variant of InitialFlag: the aggregate starts cleared.
InitialFlagCleared == FALSE

\* let allSucceeded = true;
InitialFlag == TRUE

\* Faulty variant of FlagAfterCatch: the flag is flipped.
FlagAfterCatchToggled == ~allSucceeded

\* Faulty variant of FlagAfterCatch: the flag is not cleared.
FlagAfterCatchKept == allSucceeded

\* allSucceeded = false;
FlagAfterCatch == FALSE

\* Faulty variant of CatchEvents: onToolCallError is called first.
CatchEventsReversed == <<"error", "failed">>

\* Faulty variant of CatchEvents: onToolCallError is not called.
CatchEventsNoError == <<"failed">>

\* onToolCallUpdate(.., 'failed') then onToolCallError(..)
CatchEvents == <<"failed", "error">>

\* Faulty variant of AfterCatch: the worker returns after a failure.
AfterCatchStop == "done"

\* Faulty variant of AfterCatch: the catch block rethrows.
AfterCatchRethrow == "aborted"

\* worker, lines 157-158: the catch block ends and the while loop goes on.
AfterCatch == "claim"

\* Faulty variant of WhileSleeping: the worker takes the next index while the
\* retry timer runs.
WhileSleepingReleased == "claim"

\* invokeWithRetries, line 113: the timer is awaited inside the retry loop, so
\* the worker stays with its call while it sleeps.
WhileSleeping == "backoff"

\* Math.floor(Math.random() * 500): the least and the greatest value.
Jitters == {0, 499}

\* Faulty variant of Delay: the factor 1000 is missing.
DelaySeconds(attempt, jitter) == 2 ^ attempt + jitter

\* invokeWithRetries, line 112: Math.pow(2, attempt) * 1000 + jitter.
Delay(attempt, jitter) == 2 ^ attempt * 1000 + jitter

\* Faulty variant of ClaimedIndex: the counter is incremented first.
ClaimedIndexPre == nextIndex + 1

\* const idx = nextIndex++: idx is the value before the increment.
ClaimedIndex == nextIndex

\* msg.includes('429') || msg.includes('Too Many Requests') || ...
isTooMany(msg) ==
  msg \cap {"429", "Too Many Requests", "Failed to get crumb"} /= {}

Terminal == {"completed", "failed"}

\* The correlation id passed to executeTools.
queryId == "query-1"

\* The value the attempt-th tool.invoke of call i resolves with.
InvokeResult(i, attempt) == <<"result", i, attempt>>

\* Faulty variant of ContextRecord: the correlation id is left out.
ContextRecordNoQuery(i, res) ==
  [toolName |-> toolCalls[i].tool, args |-> toolCalls[i].args, result |-> res,
   error |-> "undefined", queryId |-> "undefined"]

\* saveContext(toolCall.tool, toolCall.args, result, undefined, queryId)
ContextRecord(i, res) ==
  [toolName |-> toolCalls[i].tool, args |-> toolCalls[i].args, result |-> res,
   error |-> "undefined", queryId |-> queryId]

\* The worker gives up the thread: Array.from goes on to create the next
\* worker, which runs at once up to its first await; after the last one the
\* event loop is idle.
Yield ==
  IF started < Len(workers)
  THEN /\ started' = started + 1
       /\ thread' = started + 1
  ELSE /\ started' = started
       /\ thread' = 0

\* Faulty variant of SetStatus: the entry is replaced by a new object.
SetStatusFresh(i, s) ==
  toolCalls' = [toolCalls EXCEPT
                  ![i] = [tool |-> @.tool, args |-> "undefined", status |-> s]]

\* toolCall.status = s
SetStatus(i, s) ==
  toolCalls' = [toolCalls EXCEPT ![i].status = s]

Notify(i, ev) ==
  observed' = [observed EXCEPT ![i] = Append(@, ev)]

Goto(w, p) ==
  workers' = [workers EXCEPT ![w].pc = p]

\* -------------------------------------------------------------------- Init
TaskLists ==
  { t \in UNION { [0 .. n - 1 -> [tool : ToolNames, args : {"AAPL"}, status : {"pending"}]]
                  : n \in 0 .. MaxCalls } :
      Cardinality({ i \in DOMAIN t : t[i].tool \notin toolMap }) <= MaxMissing }

\* The lists one longer than the default pool, all of registered capabilities.
LongLists ==
  [0 .. DefaultMaxConcurrent -> [tool : toolMap, args : {"AAPL"}, status : {"pending"}]]

\* selectTools has not been called.
NoResponse == [type |-> "null", tcType |-> "undefined", items |-> <<>>]

NoUnderstanding == [entities |-> <<>>]

\* No persona has been asked for an analysis.
PersonaIdle ==
  /\ personaName = "none"
  /\ personaPc = "idle"
  /\ sections = <<>>
  /\ analysis = <<>>

SelectIdle ==
  /\ response = NoResponse
  /\ selectPc = "idle"
  /\ selected = <<>>
  /\ llmCalls = 0
  /\ understanding = NoUnderstanding
  /\ prompt = <<>>
  /\ thrown = <<>>

Init ==
  /\ toolCalls \in TaskLists \cup LongLists
  /\ toolCallsDefined \in (IF toolCalls = <<>> THEN BOOLEAN ELSE {TRUE})
  /\ store = [i \in Indices |-> <<>>]
  /\ SelectIdle
  /\ PersonaIdle
  /\ maxConcurrentToolCalls \in {<<>>} \cup { <<n>> : n \in 0 .. MaxConfigured }
  /\ pcExec = "entry"
  /\ result = <<>>
  /\ allSucceeded = TRUE
  /\ nextIndex = 0
  /\ workers = <<>>
  /\ started = 0
  /\ thread = 0
  /\ invokeLog = [i \in Indices |-> <<>>]
  /\ invokes = [i \in Indices |-> 0]
  /\ saved = [i \in Indices |-> 0]
  /\ observed = [i \in Indices |-> <<>>]
  /\ runningLog = <<>>
  /\ throws = 0
  /\ faults = 0

\* What the reasoning backend may propose: the name of any capability, known
\* to the executor or not, with its arguments and the call id.
ProposedArgs == {"AAPL", "MSFT"}

ProposedCalls == [name : ToolNames, args : ProposedArgs, id : {"call_1"}]

\* The values callLlm can resolve to: null, a string (a direct answer), or a
\* message object whose tool_calls is undefined, a non-array, or an array.
Responses ==
  { [type |-> "null", tcType |-> "undefined", items |-> <<>>],
    [type |-> "string", tcType |-> "undefined", items |-> <<>>],
    [type |-> "object", tcType |-> "undefined", items |-> <<>>],
    [type |-> "object", tcType |-> "string", items |-> <<>>] }
  \cup { [type |-> "object", tcType |-> "array", items |-> s] :
           s \in UNION { [1 .. n -> ProposedCalls] : n \in 0 .. MaxProposed } }

\* The errors callLlm can reject with (network, timeout, malformed response).
LlmErrors == {"network", "timeout", "malformed-response"}

\* callLlm rejects with error e instead of resolving.
Rejections ==
  { [type |-> "rejected", tcType |-> "undefined", items |-> <<>>, error |-> e] :
      e \in LlmErrors }

\* The entities of an understanding: typed facts extracted from the query.
Entities ==
  { [type |-> "ticker", value |-> "AAPL"], [type |-> "ticker", value |-> "MSFT"],
    [type |-> "period", value |-> "Q1"], [type |-> "company", value |-> "Apple"] }

Understandings ==
  { [entities |-> e] : e \in UNION { [1 .. n -> Entities] : n \in 0 .. MaxEntities } }

IsTicker(e) == e.type = "ticker"

IsPeriod(e) == e.type = "period"

Values(seq) == [k \in 1 .. Len(seq) |-> seq[k].value]

\* selectTools, lines 66-68: entities.filter(e => e.type === 'ticker').map(e => e.value)
Tickers(u) == Values(SelectSeq(u.entities, IsTicker))

\* selectTools, lines 70-72: the same for 'period'.
Periods(u) == Values(SelectSeq(u.entities, IsPeriod))

\* task.description
description == "get income statement"

\* The tasks selectTools may be given: toolCalls undefined, empty, or left by
\* an earlier selection and execution.
SelectTasks ==
  UNION { [0 .. n - 1 -> [tool : toolMap, args : {"AAPL"},
                          status : {"pending", "completed", "failed"}]]
          : n \in 0 .. 1 }

\* Faulty variant of Propagated: the error is wrapped in a new one.
PropagatedWrapped(e) == "Tool selection failed"

\* selectTools, line 76: await callLlm(..) with no try/catch around it, so the
\* rejection of callLlm is the rejection of selectTools.
Propagated(e) == e

\* Faulty variant of ToolCallsAfterSelect: the selection is stored in the task.
ToolCallsAssigned(sel) == [i \in 0 .. Len(sel) - 1 |-> sel[i + 1]]

\* selectTools, lines 82-83: the list is returned; task.toolCalls is not
\* assigned.
ToolCallsAfterSelect(sel) == toolCalls

\* Faulty variant of ToolCallOf: the call id is taken for the tool name.
ToolCallOfId(tc) == [tool |-> tc.id, args |-> tc.args]

\* extractToolCalls, lines 196-199: tc => ({ tool: tc.name, args: tc.args }).
ToolCallOf(tc) == [tool |-> tc.name, args |-> tc.args]

\* Faulty variant of Guarded: neither early return is taken.
GuardedAlways(r) == TRUE

\* extractToolCalls, lines 191 and 194: the response is an object and its
\* tool_calls is an array, so neither early return is taken.
Guarded(r) == r.type = "object" /\ r.tcType = "array"

\* extractToolCalls, lines 190-200.  ok is FALSE when the function throws:
\* reading tool_calls.map of anything but an array is a TypeError.
extractToolCalls(r) ==
  IF ~Guarded(r)
    THEN [ok |-> TRUE, calls |-> <<>>]
    ELSE [ok |-> r.type = "object" /\ r.tcType = "array",
          calls |-> [i \in 1 .. Len(r.items) |-> ToolCallOf(r.items[i])]]

\* selectTools, line 83: tc => ({ ...tc, status: 'pending' }).
WithPending(tc) == [tool |-> tc.tool, args |-> tc.args, status |-> "pending"]

\* The initial states of the specifications with fairness: the shorter lists.
InitLive ==
  /\ toolCalls \in { t \in TaskLists : Cardinality(DOMAIN t) <= MaxLiveCalls }
  /\ toolCallsDefined \in (IF toolCalls = <<>> THEN BOOLEAN ELSE {TRUE})
  /\ store = [i \in Indices |-> <<>>]
  /\ SelectIdle
  /\ PersonaIdle
  /\ maxConcurrentToolCalls \in {<<>>} \cup { <<n>> : n \in 0 .. MaxConfigured }
  /\ pcExec = "entry"
  /\ result = <<>>
  /\ allSucceeded = TRUE
  /\ nextIndex = 0
  /\ workers = <<>>
  /\ started = 0
  /\ thread = 0
  /\ invokeLog = [i \in Indices |-> <<>>]
  /\ invokes = [i \in Indices |-> 0]
  /\ saved = [i \in Indices |-> 0]
  /\ observed = [i \in Indices |-> <<>>]
  /\ runningLog = <<>>
  /\ throws = 0
  /\ faults = 0

\* The lists an earlier executeTools has left: every entry completed or failed.
SettledLists ==
  { t \in UNION { [0 .. n - 1 -> [tool : ToolNames, args : {"AAPL"}, status : Terminal]]
                  : n \in 1 .. MaxLiveCalls } :
      /\ Cardinality({ i \in DOMAIN t : t[i].tool \notin toolMap }) <= MaxMissing
      /\ \A i \in DOMAIN t : t[i].tool \notin toolMap => t[i].status = "failed" }

\* executeTools is called again on a task it has run before: the statuses are
\* terminal, the store holds the record of every completed entry, and the
\* counter, the flag and the workers of the earlier invocation are what that
\* invocation left.
InitRerun ==
  /\ toolCalls \in SettledLists
  /\ toolCallsDefined = TRUE
  /\ store = [i \in Indices |->
                IF toolCalls[i].status = "completed"
                  THEN <<ContextRecord(i, InvokeResult(i, 1))>>
                  ELSE <<>>]
  /\ SelectIdle
  /\ PersonaIdle
  /\ maxConcurrentToolCalls \in {<<>>} \cup { <<n>> : n \in 0 .. MaxConfigured }
  /\ pcExec = "entry"
  /\ result = <<>>
  /\ allSucceeded = \A i \in Indices : toolCalls[i].status = "completed"
  /\ nextIndex = Length + WorkerCount
  /\ workers = [w \in 1 .. WorkerCount |->
                  [pc |-> "done", idx |-> 0, attempt |-> 0, delay |-> 0]]
  /\ started = 0
  /\ thread = 0
  /\ invokeLog = [i \in Indices |-> <<>>]
  /\ invokes = [i \in Indices |-> 0]
  /\ saved = [i \in Indices |-> 0]
  /\ observed = [i \in Indices |-> <<>>]
  /\ runningLog = <<>>
  /\ throws = 0
  /\ faults = 0

\* selectTools is about to be called on a task that has no toolCalls yet; the
\* response is what callLlm will resolve to.
InitSelect ==
  /\ response \in Responses \cup Rejections
  /\ selectPc = "ready"
  /\ selected = <<>>
  /\ llmCalls = 0
  /\ understanding \in Understandings
  /\ PersonaIdle
  /\ prompt = <<>>
  /\ thrown = <<>>
  /\ toolCalls \in SelectTasks
  /\ toolCallsDefined \in (IF toolCalls = <<>> THEN BOOLEAN ELSE {TRUE})
  /\ store = [i \in Indices |-> <<>>]
  /\ maxConcurrentToolCalls = <<>>
  /\ pcExec = "entry"
  /\ result = <<>>
  /\ allSucceeded = TRUE
  /\ nextIndex = 0
  /\ workers = <<>>
  /\ started = 0
  /\ thread = 0
  /\ invokeLog = [i \in Indices |-> <<>>]
  /\ invokes = [i \in Indices |-> 0]
  /\ saved = [i \in Indices |-> 0]
  /\ observed = [i \in Indices |-> <<>>]
  /\ runningLog = <<>>
  /\ throws = 0
  /\ faults = 0

\* ----------------------------------------------------------------- actions
\* executeTools, lines 95-161: if (!task.toolCalls) return true; otherwise set
\* up the shared state and create the pool.
Enter ==
  /\ pcExec = "entry"
  /\ IF ~toolCallsDefined
     THEN /\ pcExec' = "resolved"
          /\ result' = <<TRUE>>
          /\ UNCHANGED <<allSucceeded, nextIndex, workers, started, thread>>
     ELSE /\ pcExec' = "running"
          /\ allSucceeded' = InitialFlag
          /\ nextIndex' = InitialIndex
          /\ workers' = [w \in 1 .. WorkerCount |->
                           [pc |-> "claim", idx |-> 0, attempt |-> 0, delay |-> 0]]
          /\ started' = 1
          /\ thread' = 1
          /\ UNCHANGED result
  /\ UNCHANGED <<faults, toolCalls, maxConcurrentToolCalls, invokeLog, invokes,
                 saved, observed, runningLog, throws>>
  /\ UNCHANGED <<toolCallsDefined, store, selVars, personaVars>>

\* worker, lines 122-134 and invokeWithRetries, lines 104-107, one synchronous
\* run: const idx = nextIndex++; return when past the end; otherwise notify
\* 'running', look the tool up, throw into the catch block when it is missing
\* and else make the first tool.invoke and await it.
Claim(w) ==
  LET i == ClaimedIndex IN
  /\ thread = w
  /\ workers[w].pc = "claim"
  /\ nextIndex' = nextIndex + 1
  /\ IF PastEnd(i)
     THEN /\ Goto(w, "done")
          /\ Yield
          /\ UNCHANGED <<faults, observed, runningLog, invokes>>
     ELSE /\ Notify(i, "running")
          /\ runningLog' = Append(runningLog, i)
          /\ IF ~Registered(toolCalls[i].tool)
             THEN /\ workers' = [workers EXCEPT ![w].pc = "catch", ![w].idx = i]
                  /\ UNCHANGED <<faults, invokes, started, thread>>
             ELSE /\ workers' = [workers EXCEPT
                                   ![w] = [pc |-> "invoking", idx |-> i, attempt |-> 1,
                                          delay |-> 0]]
                  /\ invokes' = [invokes EXCEPT ![i] = @ + 1]
                  /\ Yield
  /\ UNCHANGED <<faults, toolCalls, maxConcurrentToolCalls, pcExec, result, allSucceeded,
                 invokeLog, saved, throws>>
  /\ UNCHANGED <<toolCallsDefined, store, selVars, personaVars>>

\* invokeWithRetries, line 107, and worker, lines 134-144: tool.invoke
\* resolves, the worker is resumed, saves the result and sets 'completed'.
InvokeReturn(w) ==
  LET i == workers[w].idx IN
  /\ thread = 0
  /\ workers[w].pc = "invoking"
  /\ invokeLog' = [invokeLog EXCEPT ![i] = Append(@, "ok")]
  /\ saved' = [saved EXCEPT ![i] = @ + 1]
  /\ store' = [store EXCEPT
                 ![i] = Append(@, ContextRecord(i, InvokeResult(i, workers[w].attempt)))]
  /\ SetStatus(i, "completed")
  /\ Goto(w, "completed")
  /\ thread' = w
  /\ UNCHANGED <<faults, maxConcurrentToolCalls, pcExec, result, allSucceeded, nextIndex,
                 started, invokes, observed, runningLog, throws>>
  /\ UNCHANGED <<toolCallsDefined, selVars, personaVars>>

\* worker, line 145: callbacks.onToolCallUpdate(task.id, idx, 'completed').
NotifyCompleted(w) ==
  /\ thread = w
  /\ workers[w].pc = "completed"
  /\ Notify(workers[w].idx, "completed")
  /\ Goto(w, "claim")
  /\ UNCHANGED <<faults, toolCalls, maxConcurrentToolCalls, pcExec, result, allSucceeded,
                 nextIndex, started, thread, invokeLog, invokes, saved,
                 runningLog, throws>>
  /\ UNCHANGED <<toolCallsDefined, store, selVars, personaVars>>

\* Faulty variants of Rethrows: never retry; retry once too often; retry
\* whatever the error.
RethrowsAlways(msg, attempt) == TRUE

RethrowsLate(msg, attempt) == ~isTooMany(msg) \/ attempt = maxAttempts + 1

RethrowsOnlyLast(msg, attempt) == attempt = maxAttempts

\* invokeWithRetries, line 111: rethrow a non-throttle error or the last
\* attempt's.
Rethrows(msg, attempt) == ~isTooMany(msg) \/ attempt = maxAttempts

\* invokeWithRetries, lines 108-113: tool.invoke rejects with err; rethrow
\* into the worker's catch block, or sleep for the delay before a retry.
InvokeThrow(w, err) ==
  LET i == workers[w].idx IN
  /\ thread = 0
  /\ workers[w].pc = "invoking"
  /\ throws < MaxThrows
  /\ throws' = throws + 1
  /\ invokeLog' = [invokeLog EXCEPT
                     ![i] = Append(@, IF isTooMany(err) THEN "throttled" ELSE "error")]
  /\ IF Rethrows(err, workers[w].attempt)
     THEN /\ Goto(w, "catch")
          /\ thread' = w
     ELSE /\ \E jitter \in Jitters :
               workers' = [workers EXCEPT
                             ![w].pc = WhileSleeping,
                             ![w].delay = Delay(workers[w].attempt, jitter)]
          /\ thread' = 0
  /\ UNCHANGED <<faults, toolCalls, maxConcurrentToolCalls, pcExec, result, allSucceeded,
                 nextIndex, started, invokes, saved, observed, runningLog>>
  /\ UNCHANGED <<toolCallsDefined, store, selVars, personaVars>>

\* invokeWithRetries, lines 113, 105-107: the backoff timer fires; attempt++
\* and the next tool.invoke is made.
BackoffExpire(w) ==
  LET i == workers[w].idx IN
  /\ thread = 0
  /\ workers[w].pc = "backoff"
  /\ workers' = [workers EXCEPT ![w].pc = "invoking", ![w].attempt = @ + 1,
                                ![w].delay = 0]
  /\ invokes' = [invokes EXCEPT ![i] = @ + 1]
  /\ UNCHANGED <<faults, toolCalls, maxConcurrentToolCalls, pcExec, result, allSucceeded,
                 nextIndex, started, thread, invokeLog, saved, observed,
                 runningLog, throws>>
  /\ UNCHANGED <<toolCallsDefined, store, selVars, personaVars>>

\* worker, lines 146-157, the catch block: allSucceeded = false; status =
\* 'failed'; onToolCallUpdate(.., 'failed'); onToolCallError(..).
Catch(w) ==
  LET i == workers[w].idx IN
  /\ thread = w
  /\ workers[w].pc = "catch"
  /\ allSucceeded' = FlagAfterCatch
  /\ SetStatus(i, "failed")
  /\ observed' = [observed EXCEPT ![i] = @ \o CatchEvents]
  /\ Goto(w, AfterCatch)
  /\ UNCHANGED <<faults, maxConcurrentToolCalls, pcExec, result, nextIndex, started,
                 thread, invokeLog, invokes, saved, runningLog, throws>>
  /\ UNCHANGED <<toolCallsDefined, store, selVars, personaVars>>

\* Faulty variant of AllSettled: the first worker to return is enough.
AnySettled == \E w \in DOMAIN workers : workers[w].pc = "done"

\* await Promise.all(workers): every worker has returned.
AllSettled == \A w \in DOMAIN workers : workers[w].pc = "done"

\* executeTools, lines 162-164: await Promise.all(workers); return allSucceeded.
Resolve ==
  /\ pcExec = "running"
  /\ thread = 0
  /\ AllSettled
  /\ pcExec' = "resolved"
  /\ result' = <<allSucceeded>>
  /\ UNCHANGED <<faults, toolCalls, maxConcurrentToolCalls, allSucceeded, nextIndex,
                 workers, started, thread, invokeLog, invokes, saved, observed,
                 runningLog, throws>>
  /\ UNCHANGED <<toolCallsDefined, store, selVars, personaVars>>

\* invokeWithRetries, line 107: this tool.invoke never settles, so the worker
\* stays suspended at its await.
InvokeHangs(w) ==
  /\ thread = 0
  /\ workers[w].pc = "invoking"
  /\ Cardinality({ v \in DOMAIN workers : workers[v].pc = "hung" }) < MaxHangs
  /\ Goto(w, "hung")
  /\ UNCHANGED <<toolCalls, maxConcurrentToolCalls, pcExec, result, allSucceeded,
                 nextIndex, started, thread, invokeLog, invokes, saved, observed,
                 runningLog, throws, faults>>
  /\ UNCHANGED <<toolCallsDefined, store, selVars, personaVars>>

\* ---------------------------------------------- throwing collaborators
\* worker, line 126, outside the try block: onToolCallUpdate(.., 'running')
\* throws, so the worker's promise rejects.
ClaimObserverThrows(w) ==
  LET i == ClaimedIndex IN
  /\ thread = w
  /\ workers[w].pc = "claim"
  /\ ~PastEnd(i)
  /\ faults < MaxFaults
  /\ faults' = faults + 1
  /\ nextIndex' = nextIndex + 1
  /\ Notify(i, "running")
  /\ runningLog' = Append(runningLog, i)
  /\ workers' = [workers EXCEPT ![w].pc = "aborted", ![w].idx = i]
  /\ Yield
  /\ UNCHANGED <<toolCalls, maxConcurrentToolCalls, pcExec, result, allSucceeded,
                 invokeLog, invokes, saved, throws>>
  /\ UNCHANGED <<toolCallsDefined, store, selVars, personaVars>>

\* Faulty variant of SaveThrowsTo: saveContext is called outside the try block.
SaveThrowsEscapes == "aborted"

\* worker, lines 128-146: saveContext is called inside the try block, so its
\* throw is caught by the worker's catch block.
SaveThrowsTo == "catch"

\* worker, lines 134-136, 146: tool.invoke resolves and saveContext throws
\* inside the try block.
InvokeReturnSaveThrows(w) ==
  LET i == workers[w].idx IN
  /\ thread = 0
  /\ workers[w].pc = "invoking"
  /\ faults < MaxFaults
  /\ faults' = faults + 1
  /\ invokeLog' = [invokeLog EXCEPT ![i] = Append(@, "ok")]
  /\ Goto(w, SaveThrowsTo)
  /\ thread' = w
  /\ UNCHANGED <<toolCalls, maxConcurrentToolCalls, pcExec, result, allSucceeded,
                 nextIndex, started, invokes, saved, observed, runningLog, throws>>
  /\ UNCHANGED <<toolCallsDefined, store, selVars, personaVars>>

\* worker, lines 145-146: onToolCallUpdate(.., 'completed') throws inside the
\* try block, after the status was set.
NotifyCompletedThrows(w) ==
  /\ thread = w
  /\ workers[w].pc = "completed"
  /\ faults < MaxFaults
  /\ faults' = faults + 1
  /\ Notify(workers[w].idx, "completed")
  /\ Goto(w, "catch")
  /\ UNCHANGED <<toolCalls, maxConcurrentToolCalls, pcExec, result, allSucceeded,
                 nextIndex, started, thread, invokeLog, invokes, saved,
                 runningLog, throws>>
  /\ UNCHANGED <<toolCallsDefined, store, selVars, personaVars>>

\* worker, lines 147-150: an observer callback of the catch block throws
\* (site "failed": onToolCallUpdate; site "error": onToolCallError), so the
\* worker's promise rejects.
CatchObserverThrows(w, site) ==
  LET i == workers[w].idx IN
  /\ thread = w
  /\ workers[w].pc = "catch"
  /\ faults < MaxFaults
  /\ faults' = faults + 1
  /\ allSucceeded' = FlagAfterCatch
  /\ SetStatus(i, "failed")
  /\ observed' = [observed EXCEPT
                    ![i] = @ \o (IF site = "failed" THEN <<"failed">>
                                 ELSE CatchEvents)]
  /\ Goto(w, "aborted")
  /\ Yield
  /\ UNCHANGED <<maxConcurrentToolCalls, pcExec, result, nextIndex, invokeLog,
                 invokes, saved, runningLog, throws>>
  /\ UNCHANGED <<toolCallsDefined, store, selVars, personaVars>>

\* executeTools, line 162: Promise.all rejects once a worker has rejected; the
\* other workers keep running.
Reject ==
  /\ pcExec = "running"
  /\ thread = 0
  /\ \E w \in DOMAIN workers : workers[w].pc = "aborted"
  /\ pcExec' = "rejected"
  /\ UNCHANGED <<toolCalls, maxConcurrentToolCalls, result, allSucceeded,
                 nextIndex, workers, started, thread, invokeLog, invokes, saved,
                 observed, runningLog, throws, faults>>
  /\ UNCHANGED <<toolCallsDefined, store, selVars, personaVars>>

\* ------------------------------------------------------------ selectTools
execVars == <<toolCalls, maxConcurrentToolCalls, pcExec, result, allSucceeded,
              nextIndex, workers, started, thread, invokeLog, invokes, saved,
              observed, runningLog, throws, faults, toolCallsDefined, store>>

\* The arguments selectTools passes to buildToolSelectionPrompt, line 73.
PromptArgs ==
  [description |-> description, tickers |-> Tickers(understanding),
   periods |-> Periods(understanding)]

\* selectTools, lines 61-84: callLlm resolves to response, extractToolCalls
\* maps its tool_calls, and every mapped call gets status pending.
SelectTools ==
  /\ selectPc = "ready"
  /\ response.type /= "rejected"
  /\ prompt' = PromptArgs
  /\ llmCalls' = llmCalls + 1
  /\ LET extracted == extractToolCalls(response)
         returned == [i \in DOMAIN extracted.calls |-> WithPending(extracted.calls[i])]
     IN  IF extracted.ok
         THEN /\ selected' = returned
              /\ selectPc' = "returned"
              /\ toolCalls' = ToolCallsAfterSelect(returned)
              /\ thrown' = thrown
         ELSE /\ selected' = selected
              /\ selectPc' = "threw"
              /\ toolCalls' = toolCalls
              /\ thrown' = <<"TypeError">>
  /\ UNCHANGED <<response, understanding, personaVars>>
  /\ UNCHANGED <<maxConcurrentToolCalls, pcExec, result, allSucceeded, nextIndex,
                 workers, started, thread, invokeLog, invokes, saved, observed,
                 runningLog, throws, faults, toolCallsDefined, store>>

\* selectTools, lines 76-80: callLlm rejects, and so does selectTools.
SelectToolsLlmFails ==
  /\ selectPc = "ready"
  /\ response.type = "rejected"
  /\ prompt' = PromptArgs
  /\ llmCalls' = llmCalls + 1
  /\ selectPc' = "llmFailed"
  /\ thrown' = <<Propagated(response.error)>>
  /\ UNCHANGED <<response, understanding, selected, personaVars>>
  /\ UNCHANGED execVars

NextSelect ==
  \/ SelectTools
  \/ SelectToolsLlmFails

Next ==
  \/ Enter
  \/ \E w \in DOMAIN workers : Claim(w)
  \/ \E w \in DOMAIN workers : InvokeReturn(w)
  \/ \E w \in DOMAIN workers : NotifyCompleted(w)
  \/ \E w \in DOMAIN workers : \E err \in ErrorMessages : InvokeThrow(w, err)
  \/ \E w \in DOMAIN workers : BackoffExpire(w)
  \/ \E w \in DOMAIN workers : Catch(w)
  \/ Resolve

\* The executor with collaborators (observer, context store) that may throw.
NextThrowing ==
  \/ Next
  \/ \E w \in DOMAIN workers : ClaimObserverThrows(w)
  \/ \E w \in DOMAIN workers : InvokeReturnSaveThrows(w)
  \/ \E w \in DOMAIN workers : NotifyCompletedThrows(w)
  \/ \E w \in DOMAIN workers : \E site \in {"failed", "error"} : CatchObserverThrows(w, site)
  \/ Reject

\* The executor with a context store that may throw and an observer that
\* returns normally.
NextStoreThrows ==
  \/ Next
  \/ \E w \in DOMAIN workers : InvokeReturnSaveThrows(w)

\* The executor with capabilities that may never settle.
NextHanging ==
  \/ Next
  \/ \E w \in DOMAIN workers : InvokeHangs(w)

Spec == Init /\ [][Next]_vars

SpecThrowing == Init /\ [][NextThrowing]_vars

\* The event loop runs every continuation that is ready, timers fire, and
\* every capability invocation eventually returns or throws.
SpecLive == InitLive /\ [][Next]_vars /\ WF_vars(Next)

\* As SpecLive, except that an invocation may also hang for ever.
SpecHanging == InitLive /\ [][NextHanging]_vars /\ WF_vars(Next)

\* The lists of SpecLive whose capabilities are all registered: a call of an
\* unregistered one never reaches saveContext.
InitStoreThrows ==
  /\ InitLive
  /\ \A i \in Indices : toolCalls[i].tool \in toolMap

\* As SpecLive, except that saveContext may throw.
SpecStoreThrows == InitStoreThrows /\ [][NextStoreThrows]_vars /\ WF_vars(Next)

\* A second invocation of executeTools on the same task.
SpecRerun == InitRerun /\ [][Next]_vars

SpecSelect == InitSelect /\ [][NextSelect]_vars

\* ---------------------------------------------------------------- personas
\* A value of type number | undefined. Ratios are kept in thousandths, and NaN
\* is kept apart because every comparison with it is false.
Undefined == [kind |-> "undefined", v |-> 0]

NaN == [kind |-> "NaN", v |-> 0]

Num(v) == [kind |-> "number", v |-> v]

MaybeNumbers(S) == {Undefined, NaN} \cup { Num(v) : v \in S }

\* x > t and x < t for a number | undefined x: false unless x is a real number.
Gt(x, t) == x.kind = "number" /\ x.v > t

Lt(x, t) == x.kind = "number" /\ x.v < t

Abs(x) == IF x < 0 THEN 0 - x ELSE x

clamp(n, min, max) == Max(min, Min(max, n))

RECURSIVE Sum(_)
Sum(seq) == IF seq = <<>> THEN 0 ELSE Head(seq) + Sum(Tail(seq))

\* seq.slice(0, n)
Slice(seq, n) == SubSeq(seq, 1, Min(n, Len(seq)))

\* The sequences over S of length at most n.
SeqsUpTo(S, n) == UNION { [1 .. k -> S] : k \in 0 .. n }

\* The ratios, in thousandths, that the section inputs are drawn from: one on
\* each side of every threshold the Buffett sections compare with.
RatioValues == {-100, 30, 31, 80, 81, 150, 151, 499, 500, 999, 1000}

\* Warren Buffett's analyzeFundamentals, lines 12-99; has is financials.length
\* > 0 and the ratios are those of financials[0].
analyzeFundamentals(has, roe, debtToEquity, operatingMargin, fcfMargin) ==
  IF ~has THEN 0
  ELSE LET raw ==
             (IF Gt(roe, 150) THEN 3 ELSE IF Gt(roe, 80) THEN 2 ELSE 0)
           + (IF Lt(debtToEquity, 500) THEN 3
              ELSE IF Lt(debtToEquity, 1000) THEN 2 ELSE 0)
           + (IF Gt(operatingMargin, 150) THEN 2
              ELSE IF Gt(operatingMargin, 80) THEN 1 ELSE 0)
           + (IF Gt(fcfMargin, 80) THEN 2 ELSE IF Gt(fcfMargin, 30) THEN 1 ELSE 0)
       IN  clamp(raw, 0, 10)

\* Warren Buffett's analyzeConsistency, lines 101-133; incomes are the numeric
\* net_income values of financials, latest first.
analyzeConsistency(incomes) ==
  LET netIncomes == Slice(incomes, SliceLimit)
      n == Len(netIncomes)
  IN  IF n < 4 THEN 0
      ELSE LET increasing == \A i \in 1 .. n - 1 : netIncomes[i] >= netIncomes[i + 1]
               latest == netIncomes[1]
               oldest == netIncomes[n]
               change == latest - oldest
               raw == (IF increasing THEN 6 ELSE 2)
                    + (IF oldest = 0 THEN 0
                       ELSE IF change * 10 > 5 * Abs(oldest) THEN 4
                       ELSE IF change * 10 > 2 * Abs(oldest) THEN 3
                       ELSE IF change > 0 THEN 2 ELSE 0)
           IN  clamp(raw, 0, 10)

\* Warren Buffett's analyzeMoat, lines 135-190; size is financials.length, and
\* roes and opMargins are the ratios that are numbers, latest first.
analyzeMoat(size, allRoes, allMargins) ==
  LET roes == Slice(allRoes, SliceLimit)
      opMargins == Slice(allMargins, SliceLimit)
      m == Len(opMargins)
  IN  IF Min(size, SliceLimit) < 4 THEN 0
      ELSE IF Len(roes) < 4 /\ m < 4 THEN 0
      ELSE LET highRoePeriods == Cardinality({ k \in 1 .. Len(roes) : roes[k] > 150 })
               raw == (IF Len(roes) < 4 THEN 0
                       ELSE IF highRoePeriods * 10 >= 8 * Len(roes) THEN 6
                       ELSE IF highRoePeriods * 10 >= 6 * Len(roes) THEN 4
                       ELSE 2)
                    + (IF m < 4 THEN 0
                       ELSE IF /\ Sum(opMargins) > 200 * m
                               /\ opMargins[1] + opMargins[2]
                                    >= opMargins[m - 1] + opMargins[m]
                            THEN 4
                       ELSE IF Sum(opMargins) > 150 * m THEN 2
                       ELSE 0)
           IN  clamp(raw, 0, 10)

\* Warren Buffett's analyzeManagementQuality, lines 192-231, on the two
\* cash-flow items of financials[0].
analyzeManagementQuality(has, issuanceOrRepurchase, dividends) ==
  IF ~has THEN 0
  ELSE LET raw ==
             (IF issuanceOrRepurchase.kind = "undefined" THEN 0
              ELSE IF Lt(issuanceOrRepurchase, 0) THEN 5
              ELSE IF Gt(issuanceOrRepurchase, 0) THEN 1
              ELSE 3)
           + (IF dividends.kind = "undefined" THEN 0
              ELSE IF Lt(dividends, 0) THEN 5
              ELSE 2)
       IN  clamp(raw, 0, 10)

\* (intrinsicValue - marketCap) / marketCap > t / 1000, as floating-point
\* division decides it: a zero marketCap gives an infinity or NaN.
MarginOfSafetyAbove(intrinsicValue, marketCap, t) ==
  /\ marketCap.kind = "number"
  /\ IF marketCap.v = 0 THEN intrinsicValue.v > 0
     ELSE IF marketCap.v > 0
          THEN (intrinsicValue.v - marketCap.v) * 1000 > t * marketCap.v
          ELSE (intrinsicValue.v - marketCap.v) * 1000 < t * marketCap.v

\* Warren Buffett's analyzeValuation, lines 299-317; intrinsicValue is what
\* calculateIntrinsicValue returned.
analyzeValuation(intrinsicValue, marketCap) ==
  IF marketCap.kind = "undefined" THEN 0
  ELSE IF intrinsicValue.kind = "undefined" THEN 0
  ELSE IF MarginOfSafetyAbove(intrinsicValue, marketCap, 400) THEN 10
  ELSE IF MarginOfSafetyAbove(intrinsicValue, marketCap, 200) THEN 8
  ELSE IF MarginOfSafetyAbove(intrinsicValue, marketCap, 100) THEN 6
  ELSE IF MarginOfSafetyAbove(intrinsicValue, marketCap, 0) THEN 4
  ELSE 1

\* a / b rounded to the nearest integer, for a >= 0 and b > 0.
RoundDiv(a, b) == (2 * a + b) \div (2 * b)

\* Number(Math.min(10, (rawScore / maxRaw) * 10).toFixed(2)), in hundredths of
\* a point.
ScaledScore(rawScore, maxRaw) == RoundDiv(Min(1000 * maxRaw, 1000 * rawScore), maxRaw)

\* Stanley Druckenmiller's analyzeGrowthAndMomentum, lines 11-103; size is
\* financialLineItems.length, and each growth figure is undefined where the code
\* cannot compute it.
analyzeGrowthAndMomentum(size, revenueGrowth, epsGrowth, pctChange) ==
  IF size < 2 THEN 0
  ELSE LET rawScore ==
             (IF Gt(revenueGrowth, 80) THEN 3 ELSE IF Gt(revenueGrowth, 40) THEN 2
              ELSE IF Gt(revenueGrowth, 10) THEN 1 ELSE 0)
           + (IF Gt(epsGrowth, 80) THEN 3 ELSE IF Gt(epsGrowth, 40) THEN 2
              ELSE IF Gt(epsGrowth, 10) THEN 1 ELSE 0)
           + (IF Gt(pctChange, 500) THEN 3 ELSE IF Gt(pctChange, 200) THEN 2
              ELSE IF Gt(pctChange, 0) THEN 1 ELSE 0)
       IN  ScaledScore(rawScore, 9)

\* Stanley Druckenmiller's analyzeRiskReward, lines 105-166.
analyzeRiskReward(hasFinancials, hasPrices, deRatio, stdev) ==
  IF ~hasFinancials \/ ~hasPrices THEN 0
  ELSE LET rawScore ==
             (IF Lt(deRatio, 300) THEN 3 ELSE IF Lt(deRatio, 700) THEN 2
              ELSE IF Lt(deRatio, 1500) THEN 1 ELSE 0)
           + (IF Lt(stdev, 10) THEN 3 ELSE IF Lt(stdev, 20) THEN 2
              ELSE IF Lt(stdev, 40) THEN 1 ELSE 0)
       IN  ScaledScore(rawScore, 6)

\* Stanley Druckenmiller's analyzeValuation, lines 168-246; each multiple is
\* undefined where its guard fails.
analyzeValuationMultiples(hasFinancials, hasMarketCap, pe, pfcf, evEbit, evEbitda) ==
  IF ~hasFinancials \/ ~hasMarketCap THEN 0
  ELSE LET rawScore ==
             (IF Lt(pe, 15000) THEN 2 ELSE IF Lt(pe, 25000) THEN 1 ELSE 0)
           + (IF Lt(pfcf, 15000) THEN 2 ELSE IF Lt(pfcf, 25000) THEN 1 ELSE 0)
           + (IF Lt(evEbit, 15000) THEN 2 ELSE IF Lt(evEbit, 25000) THEN 1 ELSE 0)
           + (IF Lt(evEbitda, 10000) THEN 2 ELSE IF Lt(evEbitda, 18000) THEN 1 ELSE 0)
       IN  ScaledScore(rawScore, 8)

\* Stanley Druckenmiller's analyzeInsiderActivity, lines 248-285; buys and
\* sells count the trades with positive and negative transaction_shares.
analyzeInsiderActivity(trades, buys, sells) ==
  LET total == buys + sells
  IN  IF trades = 0 THEN 5
      ELSE IF total = 0 THEN 5
      ELSE IF buys * 10 > 7 * total THEN 8
      ELSE IF buys * 10 > 4 * total THEN 6
      ELSE 4

\* Stanley Druckenmiller's analyzeSentiment, lines 287-311.
analyzeSentiment(newsItems, negativeCount) ==
  IF newsItems = 0 THEN 5
  ELSE IF negativeCount * 10 > newsItems * 3 THEN 3
  ELSE IF negativeCount > 0 THEN 6
  ELSE 8

\* The weights of analyze, in hundredths, in the order the sections are
\* computed.
BuffettWeights == <<25, 20, 25, 10, 20>>

DruckenmillerWeights == <<35, 25, 20, 10, 10>>

\* totalScore, in ten-thousandths of a point, from section scores in hundredths.
TotalScore(weights, scores) ==
  Sum([i \in 1 .. Len(weights) |-> weights[i] * scores[i]])

\* Number(total.toFixed(1)), in tenths of a point, for total >= 0. toFixed
\* rounds the double that holds the sum; when the exact sum lies halfway
\* between two tenths, the double can lie on either side.
ToFixed1(total) ==
  LET q == total \div 1000
      r == total % 1000
  IN  IF r < 500 THEN {q} ELSE IF r > 500 THEN {q + 1} ELSE {q, q + 1}

\* Faulty variant of Signal: a score of exactly 7.5 is not a Strong Buy.
SignalAbove(score) ==
  IF score > 75 THEN "Strong Buy"
  ELSE IF score >= 60 THEN "Buy"
  ELSE IF score <= 40 THEN "Sell"
  ELSE "Hold"

\* analyze, lines 376-379 (Buffett) and 365-368 (Druckenmiller): the signal
\* from the rounded score, in tenths.
Signal(score) ==
  IF score >= 75 THEN "Strong Buy"
  ELSE IF score >= 60 THEN "Buy"
  ELSE IF score <= 40 THEN "Sell"
  ELSE "Hold"

\* clamp(Math.round((score / 10) * 100), 0, 100), for score in tenths.
Confidence(score) == clamp(RoundDiv(score * 100, 10 * 10), 0, 100)

\* The values the other section inputs are drawn from.
IncomeValues == {-10, 0, 10, 11, 13, 16}

RoeValues == {100, 200}

MarginValues == {100, 180, 250}

AmountValues == {-50, 0, 50, 100}

GrowthValues == {-10, 0, 5, 15, 45, 85, 210, 510}

RiskValues == {5, 15, 30, 40, 290, 690, 1490, 1500}

MultipleValues == {9999, 10000, 14999, 15000, 17999, 18000, 24999, 25000}

Personas == {"warren_buffett", "stanley_druckenmiller"}

\* analyze is about to be called on one of the two personas.
InitPersona ==
  /\ personaName \in Personas
  /\ personaPc = "analyze"
  /\ sections = <<>>
  /\ analysis = <<>>
  /\ SelectIdle
  /\ toolCalls = <<>>
  /\ toolCallsDefined = TRUE
  /\ store = <<>>
  /\ maxConcurrentToolCalls = <<>>
  /\ pcExec = "entry"
  /\ result = <<>>
  /\ allSucceeded = TRUE
  /\ nextIndex = 0
  /\ workers = <<>>
  /\ started = 0
  /\ thread = 0
  /\ invokeLog = <<>>
  /\ invokes = <<>>
  /\ saved = <<>>
  /\ observed = <<>>
  /\ runningLog = <<>>
  /\ throws = 0
  /\ faults = 0

\* analyze of persona name has computed k section scores.
AtSection(name, k) ==
  /\ personaName = name
  /\ personaPc = "analyze"
  /\ Len(sections) = k

\* A section analyzer returned score, in hundredths of a point.
SectionReturns(score) ==
  /\ sections' = Append(sections, score)
  /\ UNCHANGED <<personaName, personaPc, analysis>>
  /\ UNCHANGED <<execVars, selVars>>

\* WarrenBuffettPersona.analyze, line 359.
BuffettFundamentals ==
  /\ AtSection("warren_buffett", 0)
  /\ \E has \in BOOLEAN :
       \E roe, debtToEquity, operatingMargin, fcfMargin \in MaybeNumbers(RatioValues) :
         SectionReturns(100 * analyzeFundamentals(has, roe, debtToEquity,
                                                  operatingMargin, fcfMargin))

\* WarrenBuffettPersona.analyze, line 360.
BuffettConsistency ==
  /\ AtSection("warren_buffett", 1)
  /\ \E incomes \in SeqsUpTo(IncomeValues, MaxPeriods) :
       SectionReturns(100 * analyzeConsistency(incomes))

\* WarrenBuffettPersona.analyze, line 361.
BuffettMoat ==
  /\ AtSection("warren_buffett", 2)
  /\ \E size \in 0 .. MaxPeriods :
       \E roes \in SeqsUpTo(RoeValues, size), opMargins \in SeqsUpTo(MarginValues, size) :
         SectionReturns(100 * analyzeMoat(size, roes, opMargins))

\* WarrenBuffettPersona.analyze, line 362.
BuffettManagement ==
  /\ AtSection("warren_buffett", 3)
  /\ \E has \in BOOLEAN :
       \E issuanceOrRepurchase, dividends \in MaybeNumbers(AmountValues) :
         SectionReturns(100 * analyzeManagementQuality(has, issuanceOrRepurchase,
                                                       dividends))

\* WarrenBuffettPersona.analyze, line 363; calculateIntrinsicValue returns
\* undefined or a positive number.
BuffettValuation ==
  /\ AtSection("warren_buffett", 4)
  /\ \E marketCap \in MaybeNumbers(AmountValues) :
       \E intrinsicValue \in {Undefined} \cup { Num(v) : v \in {50, 105, 115, 125, 145} } :
         SectionReturns(100 * analyzeValuation(intrinsicValue, marketCap))

\* WarrenBuffettPersona.analyze, lines 366-392.
BuffettAnalyze ==
  /\ AtSection("warren_buffett", 5)
  /\ \E score \in ToFixed1(clamp(TotalScore(BuffettWeights, sections), 0, 10 * 10000)) :
       analysis' = <<[signal |-> Signal(score), score |-> score, max_score |-> 10,
                      confidence |-> Confidence(score)]>>
  /\ personaPc' = "returned"
  /\ UNCHANGED <<personaName, sections>>
  /\ UNCHANGED <<execVars, selVars>>

\* StanleyDruckenmillerPersona.analyze, line 350.
DruckenmillerGrowth ==
  /\ AtSection("stanley_druckenmiller", 0)
  /\ \E size \in 0 .. MaxPeriods :
       \E revenueGrowth, epsGrowth, pctChange \in MaybeNumbers(GrowthValues) :
         SectionReturns(analyzeGrowthAndMomentum(size, revenueGrowth, epsGrowth,
                                                 pctChange))

\* StanleyDruckenmillerPersona.analyze, line 351.
DruckenmillerRiskReward ==
  /\ AtSection("stanley_druckenmiller", 1)
  /\ \E hasFinancials, hasPrices \in BOOLEAN :
       \E deRatio, stdev \in MaybeNumbers(RiskValues) :
         SectionReturns(analyzeRiskReward(hasFinancials, hasPrices, deRatio, stdev))

\* StanleyDruckenmillerPersona.analyze, line 352.
DruckenmillerValuation ==
  /\ AtSection("stanley_druckenmiller", 2)
  /\ \E hasFinancials, hasMarketCap \in BOOLEAN :
       \E pe, pfcf, evEbit, evEbitda \in MaybeNumbers(MultipleValues) :
         SectionReturns(analyzeValuationMultiples(hasFinancials, hasMarketCap, pe,
                                                  pfcf, evEbit, evEbitda))

\* StanleyDruckenmillerPersona.analyze, line 353.
DruckenmillerInsider ==
  /\ AtSection("stanley_druckenmiller", 3)
  /\ \E trades \in 0 .. MaxItems :
       \E buys \in 0 .. trades :
         \E sells \in 0 .. trades - buys :
           SectionReturns(100 * analyzeInsiderActivity(trades, buys, sells))

\* StanleyDruckenmillerPersona.analyze, line 354.
DruckenmillerSentiment ==
  /\ AtSection("stanley_druckenmiller", 4)
  /\ \E newsItems \in 0 .. MaxItems :
       \E negativeCount \in 0 .. newsItems :
         SectionReturns(100 * analyzeSentiment(newsItems, negativeCount))

\* StanleyDruckenmillerPersona.analyze, lines 356-380. The weights follow the
\* order of the sum: growth, risk-reward, valuation, sentiment, insider.
DruckenmillerAnalyze ==
  /\ AtSection("stanley_druckenmiller", 5)
  /\ LET scores == <<sections[1], sections[2], sections[3], sections[5], sections[4]>>
     IN  \E score \in ToFixed1(TotalScore(DruckenmillerWeights, scores)) :
           analysis' = <<[signal |-> Signal(score), score |-> score, max_score |-> 10]>>
  /\ personaPc' = "returned"
  /\ UNCHANGED <<personaName, sections>>
  /\ UNCHANGED <<execVars, selVars>>

NextPersona ==
  \/ BuffettFundamentals
  \/ BuffettConsistency
  \/ BuffettMoat
  \/ BuffettManagement
  \/ BuffettValuation
  \/ BuffettAnalyze
  \/ DruckenmillerGrowth
  \/ DruckenmillerRiskReward
  \/ DruckenmillerValuation
  \/ DruckenmillerInsider
  \/ DruckenmillerSentiment
  \/ DruckenmillerAnalyze

\* One call of a persona's analyze, on any input.
SpecPersona == InitPersona /\ [][NextPersona]_vars

\* ------------------------------------------------------------- properties
status(i) == toolCalls[i].status

Count(seq, x) == Cardinality({ k \in 1 .. Len(seq) : seq[k] = x })

Elems(seq) == { seq[k] : k \in 1 .. Len(seq) }

\* The workers that are in the middle of call i.
Holders(i) ==
  { w \in DOMAIN workers :
      /\ workers[w].idx = i
      /\ workers[w].pc \in {"invoking", "backoff", "completed", "catch"} }

Claimed(i) == i \in Elems(runningLog)

\* Call i was claimed and its worker has left it.
Finished(i) == Claimed(i) /\ Holders(i) = {}

\* Call i is in flight: announced as running and not yet completed or failed.
InFlight(i) == "running" \in Elems(observed[i]) /\ status(i) \notin Terminal

Throttles(k) == [j \in 1 .. k |-> "throttled"]

\* C1: every index 0..N-1 is claimed by exactly one worker and executed
\* exactly once: at every moment the indices claimed so far are exactly those
\* below the claim counter, none twice and none held by two workers, and when
\* executeTools resolves every index has been claimed once and has run to
\* exactly one terminal notification.
C1_EachIndexOnce ==
  /\ \A i \in Indices : Count(runningLog, i) <= 1
  /\ \A i \in Indices : Cardinality(Holders(i)) <= 1
  /\ Elems(runningLog) = { i \in Indices : i < nextIndex }
  /\ pcExec = "resolved" =>
       \A i \in Indices :
         /\ Count(runningLog, i) = 1
         /\ Count(observed[i], "completed") + Count(observed[i], "failed") = 1
         /\ Registered(toolCalls[i].tool) => invokes[i] >= 1

C1_Witness ==
  /\ pcExec = "resolved"
  /\ Length = MaxCalls
  /\ Len(workers) = 3
  /\ runningLog = [k \in 1 .. MaxCalls |-> k - 1]

\* C2: the calls in flight never number more than max(1, min(configuredMax,
\* N)), where configuredMax is maxConcurrentToolCalls, or 3 when it is unset.
C2_BoundedInFlight ==
  LET configuredMax == IF maxConcurrentToolCalls = <<>> THEN 3
                       ELSE maxConcurrentToolCalls[1]
  IN  Cardinality({ i \in Indices : InFlight(i) })
        <= Max(1, Min(configuredMax, Length))

C2_Witness ==
  /\ maxConcurrentToolCalls = <<>>
  /\ Length > 3
  /\ Cardinality({ i \in Indices : InFlight(i) }) = 3
  /\ \E w \in DOMAIN workers : workers[w].pc = "backoff"
  /\ nextIndex = 3

\* C3: executeTools resolves true exactly when no call reached failed, and
\* false when at least one did.
C3_AggregateResult ==
  pcExec = "resolved" =>
    /\ result \in {<<TRUE>>, <<FALSE>>}
    /\ result = <<TRUE>> <=>
         \A i \in Indices : status(i) /= "failed" /\ "failed" \notin Elems(observed[i])

C3_Witness ==
  /\ pcExec = "resolved"
  /\ result = <<FALSE>>
  /\ \E i, j \in Indices : status(i) = "failed" /\ status(j) = "completed"

\* C4: onToolCallError fires exactly once for an index whose call ended
\* failed and never for one that ended completed; on resolution the result is
\* true exactly when no onToolCallError fired, and with exactly one failed
\* call the result is false and the only onToolCallError is that index's.
C4_ErrorOncePerFailure ==
  /\ \A i \in Indices :
       /\ Count(observed[i], "error") <= 1
       /\ status(i) = "completed" => Count(observed[i], "error") = 0
       /\ Finished(i) /\ status(i) = "failed" => Count(observed[i], "error") = 1
  /\ pcExec = "resolved" =>
       /\ \A i \in Indices : status(i) = "failed" <=> Count(observed[i], "error") = 1
       /\ result = <<TRUE>> <=> \A i \in Indices : Count(observed[i], "error") = 0
       /\ Cardinality({ i \in Indices : status(i) = "failed" }) = 1 => result = <<FALSE>>

C4_Witness ==
  /\ pcExec = "resolved"
  /\ result = <<FALSE>>
  /\ Length >= 2
  /\ \E i \in Indices :
       /\ status(i) = "failed"
       /\ observed[i] = <<"running", "failed", "error">>
       /\ \A j \in Indices \ {i} :
            status(j) = "completed" /\ observed[j] = <<"running", "completed">>

\* C5: every change of a call's status follows pending -> running ->
\* (completed | failed); no call goes from pending straight to a terminal
\* status.
C5_StateMachine ==
  [][\A i \in Indices :
       status(i)' /= status(i) =>
         <<status(i), status(i)'>> \in { <<"pending", "running">>,
                                         <<"running", "completed">>,
                                         <<"running", "failed">> }]_vars

\* C6: completed and failed are terminal: once a call's status is completed or
\* failed, no step changes it, whatever the capabilities, the context store
\* and the observer do.
C6_TerminalIsFinal ==
  [][\A i \in Indices : status(i) \in Terminal => status(i)' = status(i)]_vars

\* C7: a call whose first k invokes (k = 1 or 2) fail with a throttle error is
\* retried, not failed, and when invoke k+1 succeeds it is completed after
\* exactly k+1 invokes.
C7_RetryThenSuccess ==
  \A i \in Indices : \A k \in {1, 2} :
    /\ invokeLog[i] = Throttles(k) =>
         /\ status(i) = "pending"
         /\ Cardinality(Holders(i)) = 1
         /\ \A w \in Holders(i) : workers[w].pc \in {"backoff", "invoking"}
    /\ invokeLog[i] = Throttles(k) \o <<"ok">> =>
         /\ status(i) = "completed"
         /\ invokes[i] = k + 1
         /\ Finished(i) => observed[i] = <<"running", "completed">>

C7_Witness ==
  \E i \in Indices :
    /\ invokeLog[i] = <<"throttled", "throttled", "ok">>
    /\ Finished(i)
    /\ status(i) = "completed"
    /\ invokes[i] = 3

\* C8: invoke is called at most 3 times for one call; a call whose 3 invokes
\* all fail with a throttle error is not invoked a 4th time and ends failed.
C8_AtMostThreeInvokes ==
  \A i \in Indices :
    /\ invokes[i] <= 3
    /\ Len(invokeLog[i]) <= invokes[i]
    /\ invokeLog[i] = Throttles(3) =>
         /\ invokes[i] = 3
         /\ \A w \in Holders(i) : workers[w].pc = "catch"
         /\ Finished(i) => status(i) = "failed"

C8_Witness ==
  \E i \in Indices :
    /\ invokeLog[i] = <<"throttled", "throttled", "throttled">>
    /\ Finished(i)
    /\ status(i) = "failed"
    /\ invokes[i] = 3
    /\ pcExec = "resolved"

\* C9: the first invoke that fails with a non-throttle error ends the retry
\* loop: if it was invoke k, no backoff and no further invoke follows and the
\* call ends failed after exactly k invokes.
C9_NoRetryOnOtherError ==
  \A i \in Indices : \A k \in 1 .. 3 :
    invokeLog[i] = Throttles(k - 1) \o <<"error">> =>
      /\ invokes[i] = k
      /\ \A w \in Holders(i) : workers[w].pc = "catch"
      /\ status(i) \in {"pending", "failed"}
      /\ Finished(i) => status(i) = "failed"

C9_Witness ==
  \E i \in Indices :
    /\ invokeLog[i] = <<"error">>
    /\ Finished(i)
    /\ status(i) = "failed"
    /\ invokes[i] = 1

\* C10: a call whose tool is not registered is never invoked and never saved;
\* it ends failed with the observer seeing running, failed, then one
\* onToolCallError, and the later indices are still claimed.
C10_MissingToolFails ==
  \A i \in Indices :
    toolCalls[i].tool \notin toolMap =>
      /\ invokes[i] = 0
      /\ invokeLog[i] = <<>>
      /\ saved[i] = 0
      /\ status(i) \in {"pending", "failed"}
      /\ observed[i] \in { <<>>, <<"running">>, <<"running", "failed", "error">> }
      /\ status(i) = "failed" <=> observed[i] = <<"running", "failed", "error">>
      /\ Finished(i) => status(i) = "failed"
      /\ pcExec = "resolved" =>
           /\ status(i) = "failed"
           /\ \A j \in Indices : j > i => Finished(j)

C10_Witness ==
  /\ pcExec = "resolved"
  /\ Len(workers) = 1
  /\ Length >= 2
  /\ toolCalls[0].tool \notin toolMap
  /\ observed[0] = <<"running", "failed", "error">>
  /\ status(1) = "completed"

\* C11: for a task whose toolCalls is undefined or empty, executeTools
\* resolves true; no index is announced, no capability is invoked or throws,
\* nothing is saved, and with toolCalls undefined no worker is even created.
C11_EmptyListResolvesTrue ==
  (~toolCallsDefined \/ Length = 0) =>
    /\ runningLog = <<>>
    /\ throws = 0
    /\ Indices = {}
    /\ \A w \in DOMAIN workers : workers[w].pc \in {"claim", "done"}
    /\ pcExec = "resolved" => result = <<TRUE>>
    /\ ~toolCallsDefined => workers = <<>> /\ pcExec \in {"entry", "resolved"}

C11_Witness ==
  /\ ~toolCallsDefined
  /\ pcExec = "resolved"
  /\ result = <<TRUE>>

\* C12: a failed call (tool missing, throttle retries exhausted, or another
\* invocation error) never makes a worker or executeTools reject: the call is
\* recorded as failed and reported to the observer, the worker goes on, and
\* once every call is finished all workers have returned, so that executeTools
\* resolves with a boolean.
C12_FailuresDoNotEscape ==
  /\ pcExec /= "rejected"
  /\ \A w \in DOMAIN workers : workers[w].pc /= "aborted"
  /\ \A i \in Indices :
       ( /\ Finished(i)
         /\ \/ toolCalls[i].tool \notin toolMap
            \/ invokeLog[i] = Throttles(3)
            \/ (invokeLog[i] /= <<>> /\ invokeLog[i][Len(invokeLog[i])] = "error") )
       => /\ status(i) = "failed"
          /\ "failed" \in Elems(observed[i])
          /\ "error" \in Elems(observed[i])
  /\ (pcExec = "running" /\ thread = 0 /\ \A i \in Indices : Finished(i)) =>
       \A w \in DOMAIN workers : workers[w].pc = "done"
  /\ pcExec = "resolved" => result \in {<<TRUE>>, <<FALSE>>}

C12_Witness ==
  /\ pcExec = "resolved"
  /\ result = <<FALSE>>
  /\ \E i, j \in Indices :
       /\ toolCalls[i].tool \notin toolMap /\ status(i) = "failed"
       /\ invokeLog[j] = Throttles(3) /\ status(j) = "failed"

\* C13: a throwing observer does not abort a worker: no worker rejects and
\* executeTools does not reject.
C13_ObserverCannotAbort ==
  /\ pcExec /= "rejected"
  /\ \A w \in DOMAIN workers : workers[w].pc /= "aborted"

\* C14: the notifications of one index are ordered: running first, then one
\* terminal update (completed or failed, never both), then for a failed call
\* onToolCallError, and nothing after that.
C14_EventOrder ==
  \A i \in Indices :
    /\ observed[i] \in { <<>>, <<"running">>, <<"running", "completed">>,
                         <<"running", "failed">>, <<"running", "failed", "error">> }
    /\ Finished(i) =>
         observed[i] \in { <<"running", "completed">>, <<"running", "failed", "error">> }

C14_Witness ==
  /\ pcExec = "resolved"
  /\ \E i, j \in Indices :
       /\ observed[i] = <<"running", "completed">>
       /\ observed[j] = <<"running", "failed", "error">>

\* C15: a call whose status is completed has exactly one record in the context
\* store, holding its tool name, its args, the result of its last (successful)
\* invoke, no error and the correlation id; a call that is not completed has
\* none; this is so at every moment, also on return with other calls failed.
C15_OneRecordPerCompleted ==
  \A i \in Indices :
    /\ status(i) = "completed" =>
         store[i] = << [toolName |-> toolCalls[i].tool, args |-> toolCalls[i].args,
                        result |-> <<"result", i, invokes[i]>>,
                        error |-> "undefined", queryId |-> "query-1"] >>
    /\ status(i) /= "completed" => store[i] = <<>>
    /\ saved[i] = Len(store[i])

C15_Witness ==
  /\ pcExec = "resolved"
  /\ result = <<FALSE>>
  /\ \E i, j \in Indices :
       /\ status(i) = "completed" /\ invokes[i] = 2 /\ Len(store[i]) = 1
       /\ status(j) = "failed" /\ store[j] = <<>>

\* C16: if every capability invocation eventually returns or throws,
\* executeTools eventually resolves, and when it has resolved every call is
\* completed or failed.
C16_EventuallyResolves ==
  /\ <>(pcExec = "resolved")
  /\ [](pcExec = "resolved" => \A i \in Indices : status(i) \in Terminal)

C16_Witness ==
  /\ pcExec = "resolved"
  /\ Length = MaxLiveCalls
  /\ \A i \in Indices : status(i) \in Terminal
  /\ \E i, j \in Indices : status(i) = "completed" /\ status(j) = "failed"

Hung == { w \in DOMAIN workers : workers[w].pc = "hung" }

\* C17: an invocation that never returns stalls only its own worker: while a
\* worker hangs executeTools does not resolve, and as long as fewer workers
\* hang than the pool has, every call not held by a hanging worker is
\* eventually completed or failed and stays so.
C17_HangStallsOneWorker ==
  /\ [](Hung /= {} => pcExec /= "resolved")
  /\ <>[](Cardinality(Hung) < Len(workers) =>
            \A i \in Indices :
              \/ \E w \in Hung : workers[w].idx = i
              \/ status(i) \in Terminal)

C17_Witness ==
  /\ Len(workers) = 2
  /\ Length = MaxLiveCalls
  /\ Cardinality(Hung) = 1
  /\ pcExec = "running"
  /\ \E w \in Hung : workers[w].idx = 0
  /\ \A i \in Indices \ {0} : status(i) \in Terminal
  /\ \A w \in DOMAIN workers \ Hung : workers[w].pc = "done"

\* Does the response propose calls?  (A direct answer, a non-object or a
\* response without a tool_calls array proposes none.)
Proposes(r) == r.type = "object" /\ r.tcType = "array" /\ r.items /= <<>>

\* C18: when the backend proposes k calls, selectTools returns exactly k
\* entries; entry i carries the tool name and the args of the i-th proposed
\* call, in the backend's order, and every entry has status pending.
C18_SelectedMirrorsProposed ==
  (selectPc \in {"returned", "threw"} /\ Proposes(response)) =>
    /\ selectPc = "returned"
    /\ Len(selected) = Len(response.items)
    /\ \A i \in 1 .. Len(response.items) :
         selected[i] = [tool |-> response.items[i].name,
                        args |-> response.items[i].args,
                        status |-> "pending"]

C18_Witness ==
  /\ selectPc = "returned"
  /\ Len(response.items) = MaxProposed
  /\ Len(selected) = MaxProposed
  /\ selected[1].tool /= selected[2].tool
  /\ selected[1].args /= selected[2].args

\* C19: when the response proposes no calls (a direct answer, a non-object
\* response, a response without a tool_calls array), selectTools returns an
\* empty sequence and raises no error.
C19_NoCallsGivesEmpty ==
  (selectPc \in {"returned", "threw"} /\ ~Proposes(response)) =>
    /\ selectPc = "returned"
    /\ selected = <<>>

C19_Witness ==
  /\ selectPc = "returned"
  /\ response.type = "object"
  /\ response.tcType = "undefined"
  /\ selected = <<>>

\* C20: every entry selectTools returns has a tool field that names a
\* capability of the set supplied to the executor, whatever names the backend
\* proposes.
C20_SelectedToolsRegistered ==
  selectPc = "returned" =>
    \A i \in 1 .. Len(selected) : selected[i].tool \in toolMap

\* C21: selectTools calls the reasoning backend exactly once per invocation;
\* when that call fails, selectTools rejects with the same error, the backend
\* is not called again and no sequence, not even a partial one, is produced.
C21_BackendErrorPropagates ==
  /\ llmCalls <= 1
  /\ selectPc \in {"returned", "threw", "llmFailed"} => llmCalls = 1
  /\ response.type = "rejected" =>
       /\ selectPc \in {"ready", "llmFailed"}
       /\ selected = <<>>
       /\ selectPc = "llmFailed" => thrown = <<response.error>>

C21_Witness ==
  /\ selectPc = "llmFailed"
  /\ llmCalls = 1
  /\ thrown = <<"timeout">>

\* C22: selectTools leaves the task, the understanding and the executor's
\* state as they were: task.toolCalls is not assigned and no entry's status
\* changes; it only calls the backend once and returns its value.
C22_SelectChangesNothing ==
  [][ /\ execVars' = execVars
      /\ understanding' = understanding
      /\ llmCalls' <= llmCalls + 1 ]_vars

C22_Witness ==
  /\ selectPc = "returned"
  /\ Len(selected) = MaxProposed
  /\ Length = 1
  /\ status(0) = "completed"
  /\ Len(understanding.entities) = MaxEntities
  /\ prompt.tickers /= <<>>

\* C23: executeTools never adds, removes or reorders entries of task.toolCalls
\* and never changes an entry's tool or args: no step changes the length of
\* the list or the (tool, args) at any index; only status fields are written.
C23_ListIsFixed ==
  [][ /\ DOMAIN toolCalls' = DOMAIN toolCalls
      /\ \A i \in Indices :
           /\ toolCalls'[i].tool = toolCalls[i].tool
           /\ toolCalls'[i].args = toolCalls[i].args ]_vars

C23_Witness ==
  /\ pcExec = "resolved"
  /\ Length = MaxCalls
  /\ toolCalls[0].tool = "no_such_tool"
  /\ status(0) = "failed"
  /\ \A i \in Indices \ {0} : toolCalls[i].tool = "get_news" /\ status(i) = "completed"

\* C24: the aggregate-success flag starts true and is monotone: once a worker
\* has set it to false no step sets it back to true, however failing and
\* succeeding workers interleave.
C24_FlagMonotone ==
  [][ /\ (pcExec = "entry" /\ pcExec' = "running") => allSucceeded'
      /\ (pcExec = "running" /\ ~allSucceeded) => ~allSucceeded' ]_vars

C24_Witness ==
  /\ pcExec = "running"
  /\ ~allSucceeded
  /\ Cardinality({ i \in Indices : status(i) = "failed" }) = 2
  /\ \E w \in DOMAIN workers : workers[w].pc = "completed"

\* C26: a backoff delay is taken only between a throttle failure of attempt a
\* (a = 1 or 2) and attempt a + 1, and it is 2^a seconds plus a jitter of 0 to
\* 499 ms: 2000..2499 ms after attempt 1, 4000..4499 ms after attempt 2; no
\* delay is taken after the third attempt or after a non-throttle failure.
C26_BackoffDelay ==
  /\ \A w \in DOMAIN workers :
       /\ workers[w].pc = "backoff" =>
            /\ workers[w].attempt \in {1, 2}
            /\ invokeLog[workers[w].idx] = Throttles(workers[w].attempt)
            /\ workers[w].attempt = 1 => workers[w].delay \in 2000 .. 2499
            /\ workers[w].attempt = 2 => workers[w].delay \in 4000 .. 4499
       /\ workers[w].pc /= "backoff" => workers[w].delay = 0
  /\ \A i \in Indices :
       ( \/ invokeLog[i] = Throttles(3)
         \/ (invokeLog[i] /= <<>> /\ invokeLog[i][Len(invokeLog[i])] = "error") )
       => \A w \in DOMAIN workers :
            workers[w].idx = i => workers[w].pc /= "backoff"

C26_Witness ==
  \E w \in DOMAIN workers :
    /\ workers[w].pc = "backoff"
    /\ workers[w].attempt = 2
    /\ workers[w].delay = 4499

\* C27: claiming an index and emitting its running notification are one step,
\* so the running notifications of one executeTools come in ascending index
\* order 0, 1, .., whatever the order of the terminal notifications.
C27_RunningAscending ==
  runningLog = [k \in 1 .. Min(nextIndex, Length) |-> k - 1]

C27_Witness ==
  /\ Length = MaxCalls
  /\ Len(runningLog) = Length
  /\ status(0) = "pending"
  /\ status(1) = "completed"
  /\ status(2) = "failed"

\* C28: each worker has at most one call in flight: a claimed call is either
\* held by exactly one worker or completed or failed; a worker that awaits an
\* invocation or sleeps in a backoff still holds its pending call; and a call
\* has at most one invocation outstanding, namely while its worker awaits it.
C28_OneCallPerWorker ==
  /\ \A i \in Indices :
       /\ Cardinality(Holders(i)) <= 1
       /\ (Claimed(i) /\ Holders(i) = {}) => status(i) \in Terminal
       /\ invokes[i] - Len(invokeLog[i]) =
            (IF \E w \in Holders(i) : workers[w].pc = "invoking" THEN 1 ELSE 0)
  /\ \A w \in DOMAIN workers :
       workers[w].pc \in {"invoking", "backoff"} =>
         /\ Claimed(workers[w].idx)
         /\ status(workers[w].idx) = "pending"
  /\ Cardinality({ i \in Indices : Claimed(i) /\ status(i) \notin Terminal })
       <= Len(workers)

C28_Witness ==
  /\ Len(workers) = 2
  /\ nextIndex = 2
  /\ Length = MaxCalls
  /\ workers[1].pc = "backoff" /\ workers[1].attempt = 2
  /\ workers[2].pc = "invoking" /\ workers[2].attempt = 2

\* C29: executeTools does not look at an entry's status before running it and
\* counts claims from 0 in every invocation: an invocation on a task whose
\* entries are already completed or failed claims every entry exactly once,
\* invokes it again, and overwrites its status with the new outcome.
C29_SettledEntriesRunAgain ==
  /\ pcExec = "running" => Elems(runningLog) = { i \in Indices : i < nextIndex }
  /\ pcExec = "resolved" =>
       \A i \in Indices :
         /\ Count(runningLog, i) = 1
         /\ Registered(toolCalls[i].tool) =>
              /\ invokes[i] >= 1
              /\ Len(invokeLog[i]) = invokes[i]
              /\ status(i) = (IF invokeLog[i][invokes[i]] = "ok"
                                THEN "completed" ELSE "failed")
         /\ ~Registered(toolCalls[i].tool) => status(i) = "failed"

C29_Witness ==
  /\ pcExec = "resolved"
  /\ \E i, j \in Indices :
       /\ Len(store[i]) = 1 /\ status(i) = "failed" /\ invokes[i] = 1
       /\ Len(store[j]) = 1 /\ status(j) = "completed" /\ invokes[j] = 2
       /\ store[j][1].result = InvokeResult(j, 2)

\* The invoke of call i succeeded and the context-store write for it threw.
StoreFailed(i) ==
  /\ invokeLog[i] /= <<>>
  /\ invokeLog[i][Len(invokeLog[i])] = "ok"
  /\ saved[i] = 0

\* C30: when the context-store write throws after a successful invoke, the
\* call ends failed (status failed, failed notification, onToolCallError,
\* aggregate false), it is not invoked again, no completed notification is
\* emitted, the worker goes on to claim further indices, and executeTools
\* still resolves.
C30_StoreThrowFailsTheCall ==
  /\ [](\A i \in Indices :
          StoreFailed(i) =>
            /\ invokes[i] = Len(invokeLog[i])
            /\ "completed" \notin Elems(observed[i])
            /\ status(i) \in {"pending", "failed"}
            /\ \A w \in Holders(i) : workers[w].pc = "catch"
            /\ Finished(i) =>
                 /\ status(i) = "failed"
                 /\ observed[i] = <<"running", "failed", "error">>
                 /\ ~allSucceeded)
  /\ [](pcExec /= "rejected" /\ \A w \in DOMAIN workers : workers[w].pc /= "aborted")
  /\ [](pcExec = "resolved" =>
          /\ \A i \in Indices : Finished(i)
          /\ (\E i \in Indices : StoreFailed(i)) => result = <<FALSE>>)
  /\ <>(pcExec = "resolved")

C30_Witness ==
  /\ pcExec = "resolved"
  /\ result = <<FALSE>>
  /\ Len(workers) = 1
  /\ Length = MaxLiveCalls
  /\ invokeLog[0] = <<"throttled", "ok">>
  /\ StoreFailed(0)
  /\ status(0) = "failed"
  /\ invokes[0] = 2
  /\ \A i \in Indices \ {0} : status(i) = "completed"

\* C25: whatever the input, the analysis a persona returns has max_score 10, a
\* score from 0 to 10 (kept here in tenths, 0 to 100), for Warren Buffett a
\* confidence from 0 to 100, and the signal that goes with the score: Strong
\* Buy from 7.5 up, Buy from 6.0 up to but not including 7.5, Sell up to 4.0,
\* and Hold in between.
C25_AnalysisInRange ==
  analysis /= <<>> =>
    LET a == analysis[1]
    IN  /\ a.max_score = 10
        /\ a.score >= 0 /\ a.score <= 100
        /\ personaName = "warren_buffett" =>
             a.confidence >= 0 /\ a.confidence <= 100
        /\ a.signal \in {"Strong Buy", "Buy", "Hold", "Sell"}
        /\ a.signal = "Strong Buy" <=> a.score >= 75
        /\ a.signal = "Buy" <=> (a.score >= 60 /\ a.score < 75)
        /\ a.signal = "Sell" <=> a.score <= 40
        /\ a.signal = "Hold" <=> (a.score > 40 /\ a.score < 60)

\* Warren Buffett's analyze returned a score of exactly 7.5.
C25_Witness ==
  /\ analysis /= <<>>
  /\ personaName = "warren_buffett"
  /\ analysis[1].score = 75
  /\ analysis[1].signal = "Strong Buy"


=============================================================================
